---- MODULE Spec2Model ----
(***************************************************************************)
(* Model of app.py: the fertilizer recommendation web front-end.           *)
(*                                                                         *)
(* State: the two process-wide slots (model, label_encoders), the static   *)
(* FERTILIZER_MAPPING table, the two artifact files read at startup, the   *)
(* position of the __main__ block, and the last request with its response. *)
(*                                                                         *)
(* JSON values of a request are written as tokens:                         *)
(*   "absent"  the key is not in the body (dict.get returns None)          *)
(*   "abc"     a JSON string that is not a number                          *)
(*   "huge"    a JSON integer of 400 digits (float() overflows)            *)
(*   "1"       the JSON number 1                                           *)
(*   "'2'"     the JSON string "2" (float() parses it)                     *)
(***************************************************************************)
EXTENDS Integers, Sequences, FiniteSets, TLC

VARIABLES
    model,              \* app.py:17  global classifier slot
    label_encoders,     \* app.py:18  global encoder-set slot
    fertilizer_mapping, \* app.py:21  global name table
    model_file,         \* what MODEL_PATH holds
    encoder_file,       \* what ENCODER_PATH holds
    status_line,        \* the line load_assets printed
    pc,                 \* position of the __main__ block
    request,            \* the request of the last handler that ran
    response,           \* its response
    accessed,           \* encoder/classifier operations that handler made
    options             \* last result of get_categorical_options

vars == <<model, label_encoders, fertilizer_mapping, model_file, encoder_file,
          status_line, pc, request, response, accessed, options>>

-----------------------------------------------------------------------------
(* Bounds of the model *)

\* the classifier emits labels 0..MaxLabel (the table defines 0..9)
MaxLabel == 11

\* a request body has at most MaxOffFields numeric fields that are not the
\* JSON number 1
MaxOffFields == 2

-----------------------------------------------------------------------------
(* Values *)

None == [kind |-> "None"]

FERTILIZER_MAPPING ==
    [l \in 0..9 |->
        CASE l = 0 -> "Balanced NPK Fertilizer"
          [] l = 1 -> "Compost"
          [] l = 2 -> "DAP"
          [] l = 3 -> "General Purpose Fertilizer"
          [] l = 4 -> "Gypsum"
          [] l = 5 -> "Lime"
          [] l = 6 -> "Muriate of Potash"
          [] l = 7 -> "Organic Fertilizer"
          [] l = 8 -> "Urea"
          [] l = 9 -> "Water Retaining Fertilizer"]

\* dict.get(key, default) on the name table
MappingGet(mapping, label, default) ==
    IF label \in DOMAIN mapping THEN mapping[label] ELSE default

\* Pickled classifiers the model file may hold: an opaque total function of
\* the 9-element vector, sensitive to the position of every element.
Classifiers == {[kind |-> "DecisionTree", bias |-> b] : b \in {0, 5}}

RECURSIVE WeightedSum(_, _)
WeightedSum(v, i) ==
    IF i = 0 THEN 0 ELSE i * v[i] + WeightedSum(v, i - 1)

\* model.predict(features)[0]
ModelPredict(m, features) ==
    (m.bias + WeightedSum(features, Len(features))) % (MaxLabel + 1)

\* Pickled encoder-sets the encoder file may hold; classes_ of a fitted
\* LabelEncoder is a sorted sequence of distinct labels.
EncoderSets ==
    {[kind |-> "encoders",
      Soil |-> <<"Loamy", "Sandy">>,
      Crop |-> <<"Rice", "Wheat">>],
     [kind |-> "encoders",
      Soil |-> <<"Loamy">>,
      Crop |-> <<"Rice", "Wheat">>]}

\* label_encoders[field].classes_
Classes(encoders, field) ==
    IF field = "Soil" THEN encoders.Soil ELSE encoders.Crop

SeqRange(s) == {s[i] : i \in 1..Len(s)}

\* a membership test that lets every value through
InClassesUnchecked(value, classes) == TRUE

\* value in classes_
InClasses(value, classes) == value \in SeqRange(classes)

\* LabelEncoder.transform([value]) raises ValueError on an unseen label
TransformRaises(classes, value) == value \notin SeqRange(classes)

\* LabelEncoder.transform([value])[0]: the 0-based position of the label
Transform(classes, value) ==
    (CHOOSE i \in 1..Len(classes) : classes[i] = value) - 1

\* classes_.tolist()
ToList(classes) == [i \in 1..Len(classes) |-> classes[i]]

-----------------------------------------------------------------------------
(* Requests *)

NumericFields ==
    <<"Temperature", "Moisture", "PH", "Nitrogen", "Phosphorous",
      "Potassium", "Carbon">>

NumericTokens == {"absent", "abc", "huge", "1", "'2'"}

SoilTokens == {"absent", "Martian", "Loamy", "Sandy"}

CropTokens == {"absent", "Martian", "Rice", "Wheat"}

FieldNames == SeqRange(NumericFields) \cup {"Soil", "Crop"}

NoFields == [f \in FieldNames |-> "absent"]

\* the fields of a body that is a JSON object
ObjectBody(n, s, c) ==
    [f \in FieldNames |->
        IF f = "Soil" THEN s ELSE IF f = "Crop" THEN c ELSE n[f]]

\* the numeric fields of the bodies that are sent
NumericBodies ==
    {n \in [SeqRange(NumericFields) -> NumericTokens] :
        Cardinality({f \in SeqRange(NumericFields) : n[f] # "1"}) <= MaxOffFields}

PredictRequest(shape, fields) ==
    [route |-> "POST /predict", shape |-> shape, fields |-> fields]

\* request.json: a JSON object, another JSON value, or not JSON at all
BodyShapes == {"object", "array", "not_json"}

\* float(x): the outcome of the conversion
Float(tok) ==
    CASE tok = "absent" -> [ok |-> FALSE, exc |-> "TypeError", v |-> 0]
      [] tok = "abc"    -> [ok |-> FALSE, exc |-> "ValueError", v |-> 0]
      [] tok = "huge"   -> [ok |-> FALSE, exc |-> "OverflowError", v |-> 0]
      [] tok = "1"      -> [ok |-> TRUE, exc |-> "", v |-> 1]
      [] tok = "'2'"    -> [ok |-> TRUE, exc |-> "", v |-> 2]

\* what an f-string prints for the value of data.get(key)
Str(tok) == IF tok = "absent" THEN "None" ELSE tok

-----------------------------------------------------------------------------
(* Responses *)

Jsonify(status, body) == [status |-> status, ctype |-> "json", body |-> body]

RenderTemplate(status, template, ctx) ==
    [status |-> status, ctype |-> "html",
     body |-> [template |-> template, context |-> ctx]]

NoResponse == [status |-> 0, ctype |-> "none", body |-> [none |-> TRUE]]

NoRequest == [route |-> "none", shape |-> "none", fields |-> NoFields]

Result(resp, acc) == [response |-> resp, accessed |-> acc]

-----------------------------------------------------------------------------
(* get_categorical_options *)

\* the option lists attached to the wrong fields
GetCategoricalOptionsSwapped(encoders) ==
    IF encoders = None
    THEN [Soil |-> <<>>, Crop |-> <<>>]
    ELSE [Soil |-> ToList(Classes(encoders, "Crop")),
          Crop |-> ToList(Classes(encoders, "Soil"))]

GetCategoricalOptions(encoders) ==
    IF encoders = None
    THEN [Soil |-> <<>>, Crop |-> <<>>]
    ELSE [Soil |-> ToList(Classes(encoders, "Soil")),
          Crop |-> ToList(Classes(encoders, "Crop"))]

-----------------------------------------------------------------------------
(* recommend_form *)

\* the test both handlers make before anything else
Absent(m, encoders) == m = None \/ encoders = None

AssetsFailedPage ==
    RenderTemplate(500, "error.html",
        [message |-> "Application assets (model/encoders) failed to load. Please check server logs."])

RecommendHandler(m, encoders) ==
    IF Absent(m, encoders)
    THEN Result(AssetsFailedPage, {})
    ELSE LET opts == GetCategoricalOptions(encoders)
         IN  Result(RenderTemplate(200, "recommend.html",
                        [soil_options |-> opts.Soil, crop_options |-> opts.Crop]),
                    {"Soil.classes_", "Crop.classes_"})

-----------------------------------------------------------------------------
(* predict *)

\* the degraded answer sent as a success
ModelNotLoadedAs200 == Jsonify(200, [error |-> "Model not loaded."])

ModelNotLoaded == Jsonify(500, [error |-> "Model not loaded."])

InvalidInput ==
    Jsonify(400, [error |-> "Invalid input. Ensure all numerical fields are filled correctly."])

\* the catch-all answering with a bare string, as the old index route did
UnexpectedErrorAsText(exc) ==
    [status |-> 500, ctype |-> "text",
     body |-> [text |-> "Unexpected server error during prediction: " \o exc]]

UnexpectedError(exc) ==
    Jsonify(500, [error |-> "Unexpected server error during prediction: " \o exc])

UnknownCategory(label, value) ==
    Jsonify(400, [error |-> "Unknown " \o label \o " Type: '" \o Str(value) \o "'"])

Success(name) ==
    Jsonify(200, [success |-> TRUE, fertilizer_recommendation |-> name])

\* the two except clauses of predict
Except(exc) ==
    IF exc \in {"TypeError", "ValueError"}
    THEN InvalidInput
    ELSE UnexpectedError(exc)

\* the seven float() conversions in order: the first one that raises ends them
Coerce(fields) ==
    LET bad == {i \in 1..Len(NumericFields) : ~Float(fields[NumericFields[i]]).ok}
    IN  IF bad = {}
        THEN [ok |-> TRUE, exc |-> "",
              v |-> [i \in 1..Len(NumericFields) |-> Float(fields[NumericFields[i]]).v]]
        ELSE LET first == CHOOSE i \in bad : \A j \in bad : i <= j
             IN  [ok |-> FALSE, exc |-> Float(fields[NumericFields[first]]).exc,
                  v |-> <<>>]

\* np.array([[temp, moisture, ph, nitrogen, phosphorous, potassium, carbon,
\*            soil_enc, crop_enc]])
\* the two codes in the other order
FeaturesCropFirst(nums, soil_enc, crop_enc) == nums \o <<crop_enc, soil_enc>>

Features(nums, soil_enc, crop_enc) == nums \o <<soil_enc, crop_enc>>

PredictHandler(m, encoders, mapping, req) ==
    IF Absent(m, encoders) THEN Result(ModelNotLoaded, {})
    ELSE IF req.shape = "not_json"
    THEN Result(Except("UnsupportedMediaType"), {})
    ELSE IF req.shape # "object"
    THEN Result(Except("AttributeError"), {})
    ELSE
    LET data == req.fields
        nums == Coerce(data)
        soil == data["Soil"]
        crop == data["Crop"]
    IN  IF ~nums.ok THEN Result(Except(nums.exc), {})
        ELSE IF ~InClasses(soil, Classes(encoders, "Soil"))
        THEN Result(UnknownCategory("Soil", soil), {"Soil.classes_"})
        ELSE IF ~InClasses(crop, Classes(encoders, "Crop"))
        THEN Result(UnknownCategory("Crop", crop), {"Soil.classes_", "Crop.classes_"})
        ELSE IF TransformRaises(Classes(encoders, "Soil"), soil)
        THEN Result(Except("ValueError"),
                    {"Soil.classes_", "Crop.classes_", "Soil.transform"})
        ELSE IF TransformRaises(Classes(encoders, "Crop"), crop)
        THEN Result(Except("ValueError"),
                    {"Soil.classes_", "Crop.classes_", "Soil.transform",
                     "Crop.transform"})
        ELSE
        LET soil_enc == Transform(Classes(encoders, "Soil"), soil)
            crop_enc == Transform(Classes(encoders, "Crop"), crop)
            features == Features(nums.v, soil_enc, crop_enc)
            encoded_output == ModelPredict(m, features)
            fertilizer_name == MappingGet(mapping, encoded_output, "Unknown Fertilizer")
        IN  Result(Success(fertilizer_name),
                   {"Soil.classes_", "Crop.classes_", "Soil.transform",
                    "Crop.transform", "model.predict"})

-----------------------------------------------------------------------------
(* The state machine *)

MissingFile == [cond |-> "missing", content |-> None]
CorruptFile == [cond |-> "corrupt", content |-> None]
ValidFile(content) == [cond |-> "valid", content |-> content]

NoOptions == [Soil |-> <<>>, Crop |-> <<>>]

Init ==
    /\ model = None
    /\ label_encoders = None
    /\ fertilizer_mapping = FERTILIZER_MAPPING
    /\ model_file \in {MissingFile, CorruptFile} \cup {ValidFile(c) : c \in Classifiers}
    /\ encoder_file \in {MissingFile, CorruptFile} \cup {ValidFile(e) : e \in EncoderSets}
    /\ status_line = ""
    /\ pc = "load_assets:41"
    /\ request = NoRequest
    /\ response = NoResponse
    /\ accessed = {}
    /\ options = NoOptions

\* open() and pickle.load() of one artifact: the exception raised, "" if none
LoadException(file) ==
    CASE file.cond = "missing" -> "FileNotFoundError"
      [] file.cond = "corrupt" -> "UnpicklingError"
      [] file.cond = "valid"   -> ""

StatusNotFound == "Error: One or both files not found."
StatusLoadError == "Error loading assets"
StatusLoaded == "Model and Label Encoders loaded successfully."

\* an except clause that resets the encoder-set slot only
LoadExceptKeepsModel(exc) ==
    /\ status_line' = IF exc = "FileNotFoundError"
                      THEN StatusNotFound
                      ELSE StatusLoadError
    /\ UNCHANGED model
    /\ label_encoders' = None
    /\ pc' = "load_assets:return"

\* the single catch-all clause of the old load_assets
LoadExceptCatchAll(exc) ==
    /\ status_line' = StatusLoadError
    /\ model' = None
    /\ label_encoders' = None
    /\ pc' = "load_assets:return"

\* the two except clauses of load_assets
LoadExcept(exc) ==
    /\ status_line' = IF exc = "FileNotFoundError"
                      THEN StatusNotFound
                      ELSE StatusLoadError
    /\ model' = None
    /\ label_encoders' = None
    /\ pc' = "load_assets:return"

\* load_assets, up to the assignment of model
LoadAssetsModel ==
    /\ pc = "load_assets:41"
    /\ LET exc == LoadException(model_file)
       IN  IF exc = ""
           THEN /\ model' = model_file.content
                /\ pc' = "load_assets:44"
                /\ UNCHANGED <<label_encoders, status_line>>
           ELSE LoadExcept(exc)
    /\ UNCHANGED <<fertilizer_mapping, model_file, encoder_file, request,
                   response, accessed, options>>

\* load_assets, from the opening of the encoder file to the return
LoadAssetsEncoders ==
    /\ pc = "load_assets:44"
    /\ LET exc == LoadException(encoder_file)
       IN  IF exc = ""
           THEN /\ label_encoders' = encoder_file.content
                /\ status_line' = StatusLoaded
                /\ pc' = "load_assets:return"
                /\ UNCHANGED model
           ELSE LoadExcept(exc)
    /\ UNCHANGED <<fertilizer_mapping, model_file, encoder_file, request,
                   response, accessed, options>>

\* __main__: app.run() after load_assets() has returned
AppRun ==
    /\ pc = "load_assets:return"
    /\ pc' = "serving"
    /\ UNCHANGED <<model, label_encoders, fertilizer_mapping, model_file,
                   encoder_file, status_line, request, response, accessed, options>>

\* requests handled while load_assets is still running
ServingDuringLoad == TRUE

\* requests are handled once app.run() is reached
Serving == pc = "serving"

\* one request is handled at a time
Idle == request = NoRequest

\* a handler that drops the classifier
HandlerFrameDropsModel ==
    /\ model' = None
    /\ UNCHANGED <<label_encoders, fertilizer_mapping, model_file,
                   encoder_file, status_line, pc>>

\* no handler assigns a global
HandlerFrame ==
    UNCHANGED <<model, label_encoders, fertilizer_mapping, model_file,
                encoder_file, status_line, pc>>

Home ==
    /\ Serving
    /\ Idle
    /\ request' = [route |-> "GET /", shape |-> "none", fields |-> NoFields]
    /\ response' = RenderTemplate(200, "home.html", [none |-> TRUE])
    /\ accessed' = {}
    /\ UNCHANGED options
    /\ HandlerFrame

RecommendForm ==
    /\ Serving
    /\ Idle
    /\ request' = [route |-> "GET /recommend", shape |-> "none", fields |-> NoFields]
    /\ LET r == RecommendHandler(model, label_encoders)
       IN  /\ response' = r.response
           /\ accessed' = r.accessed
    /\ options' = IF Absent(model, label_encoders)
                  THEN options
                  ELSE GetCategoricalOptions(label_encoders)
    /\ HandlerFrame

Predict ==
    /\ Serving
    /\ Idle
    /\ \E sh \in BodyShapes :
       \E n \in IF sh = "object"
                THEN NumericBodies
                ELSE {[f \in SeqRange(NumericFields) |-> "absent"]} :
       \E s \in IF sh = "object" THEN SoilTokens ELSE {"absent"} :
       \E c \in IF sh = "object" THEN CropTokens ELSE {"absent"} :
          LET req == PredictRequest(sh, ObjectBody(n, s, c))
              r == PredictHandler(model, label_encoders, fertilizer_mapping, req)
          IN  /\ request' = req
              /\ response' = r.response
              /\ accessed' = r.accessed
    /\ UNCHANGED options
    /\ HandlerFrame

\* a direct call of get_categorical_options()
CategoricalOptions ==
    /\ Serving
    /\ Idle
    /\ request' = [route |-> "get_categorical_options()", shape |-> "none",
                   fields |-> NoFields]
    /\ options' = GetCategoricalOptions(label_encoders)
    /\ response' = NoResponse
    /\ accessed' = IF label_encoders = None THEN {}
                   ELSE {"Soil.classes_", "Crop.classes_"}
    /\ HandlerFrame

\* the response is sent and the server waits for the next request
RequestDone ==
    /\ request # NoRequest
    /\ request' = NoRequest
    /\ response' = NoResponse
    /\ accessed' = {}
    /\ options' = NoOptions
    /\ HandlerFrame

Next ==
    \/ LoadAssetsModel
    \/ LoadAssetsEncoders
    \/ AppRun
    \/ Home
    \/ RecommendForm
    \/ Predict
    \/ CategoricalOptions
    \/ RequestDone

Spec == Init /\ [][Next]_vars

-----------------------------------------------------------------------------
(* Vocabulary of the properties, written on the state alone *)

Loaded == model # None /\ label_encoders # None

Degraded == model = None \/ label_encoders = None

ReturnedFromLoad == pc \in {"load_assets:return", "serving"}

IsRecommend == request.route = "GET /recommend"

IsPredict == request.route = "POST /predict"

IsObjectPredict == IsPredict /\ request.shape = "object"

\* the field is a JSON number or a string that reads as one
Parses(f) == request.fields[f] \in {"1", "'2'"}

AllNumericParse == \A i \in 1..Len(NumericFields) : Parses(NumericFields[i])

\* the field is missing or is not a number
MissingOrNonNumeric(f) == request.fields[f] \in {"absent", "abc"}

NumberOf(f) == IF request.fields[f] = "1" THEN 1 ELSE 2

KnownLabels(f) ==
    IF f = "Soil"
    THEN {label_encoders.Soil[i] : i \in 1..Len(label_encoders.Soil)}
    ELSE {label_encoders.Crop[i] : i \in 1..Len(label_encoders.Crop)}

IsKnown(f) == request.fields[f] \in KnownLabels(f)

CodeOf(f) ==
    LET classes == IF f = "Soil" THEN label_encoders.Soil ELSE label_encoders.Crop
    IN  Cardinality({i \in 1..Len(classes) : i < (CHOOSE j \in 1..Len(classes) :
                                                   classes[j] = request.fields[f])})

\* [temperature, moisture, pH, nitrogen, phosphorous, potassium, carbon,
\*  soil_code, crop_code]
ExpectedVector ==
    <<NumberOf("Temperature"), NumberOf("Moisture"), NumberOf("PH"),
      NumberOf("Nitrogen"), NumberOf("Phosphorous"), NumberOf("Potassium"),
      NumberOf("Carbon"), CodeOf("Soil"), CodeOf("Crop")>>

ExpectedName ==
    LET label == ModelPredict(model, ExpectedVector)
    IN  IF label \in 0..9 THEN FERTILIZER_MAPPING[label] ELSE "Unknown Fertilizer"

PrintedValue(f) ==
    IF request.fields[f] = "absent" THEN "None" ELSE request.fields[f]

NamesFieldAndValue(f) ==
    /\ response.status = 400
    /\ response.ctype = "json"
    /\ DOMAIN response.body = {"error"}
    /\ response.body.error = "Unknown " \o f \o " Type: '" \o PrintedValue(f) \o "'"

IsGenericInvalidInput ==
    /\ response.status = 400
    /\ response.ctype = "json"
    /\ DOMAIN response.body = {"error"}
    /\ response.body.error =
         "Invalid input. Ensure all numerical fields are filled correctly."

IsJsonError ==
    /\ response.ctype = "json"
    /\ "error" \in DOMAIN response.body
    /\ response.status \in {400, 500}

IsPredictSuccess ==
    /\ response.ctype = "json"
    /\ "success" \in DOMAIN response.body

IsRecommendSuccess ==
    /\ response.ctype = "html"
    /\ response.body.template = "recommend.html"

-----------------------------------------------------------------------------
(* Properties *)

\* C1: while the classifier slot or the encoder-set slot is None, GET
\* /recommend and POST /predict answer 500 and the handler has made no read
\* of an encoder's class list, no transform and no classifier call, whatever
\* the body holds.
C1_DegradedAnswers500 ==
    (Degraded /\ (IsRecommend \/ IsPredict))
        => (response.status = 500 /\ accessed = {})

C1_Witness ==
    /\ Degraded
    /\ IsObjectPredict
    /\ AllNumericParse
    /\ request.fields["Soil"] = "Loamy"
    /\ request.fields["Crop"] = "Wheat"
    /\ response.status = 500

\* C2: with assets loaded, a POST /predict whose seven numeric fields parse
\* and whose Soil and Crop are known labels answers 200 with success true and
\* the table's name for the label the classifier emits on the ordered vector,
\* or "Unknown Fertilizer" when the table has no such label.
C2_ValidRecordIsPredicted ==
    (Loaded /\ IsObjectPredict /\ AllNumericParse
        /\ IsKnown("Soil") /\ IsKnown("Crop"))
        => /\ response.status = 200
           /\ response.ctype = "json"
           /\ response.body =
                [success |-> TRUE, fertilizer_recommendation |-> ExpectedName]

C2_Witness ==
    /\ Loaded
    /\ IsObjectPredict
    /\ AllNumericParse
    /\ request.fields["Temperature"] = "'2'"
    /\ IsKnown("Soil")
    /\ IsKnown("Crop")
    /\ response.status = 200
    /\ response.body.fertilizer_recommendation = "Unknown Fertilizer"
    /\ ModelPredict(model, ExpectedVector) = 11

\* C3 as stated: every categorical field whose value is unknown is named,
\* with its value, by a 400 answer, and the classifier is not invoked.
C3_EveryUnknownFieldNamed ==
    \A f \in {"Soil", "Crop"} :
        (Loaded /\ IsObjectPredict /\ AllNumericParse /\ ~IsKnown(f))
            => (NamesFieldAndValue(f) /\ "model.predict" \notin accessed)

\* C3: with assets loaded and the seven numeric fields parseable, a POST
\* /predict with an unknown Soil or Crop answers 400 naming the first unknown
\* field in the order Soil, Crop, with its value, and neither a transform nor
\* the classifier is invoked.
C3_FirstUnknownFieldNamed ==
    (Loaded /\ IsObjectPredict /\ AllNumericParse
        /\ (~IsKnown("Soil") \/ ~IsKnown("Crop")))
        => /\ NamesFieldAndValue(IF ~IsKnown("Soil") THEN "Soil" ELSE "Crop")
           /\ accessed \subseteq {"Soil.classes_", "Crop.classes_"}

C3_Witness ==
    /\ Loaded
    /\ IsObjectPredict
    /\ AllNumericParse
    /\ IsKnown("Soil")
    /\ request.fields["Crop"] = "Martian"
    /\ NamesFieldAndValue("Crop")
    /\ accessed = {"Soil.classes_", "Crop.classes_"}

\* C4: with assets loaded, a POST /predict in which a numeric field is
\* missing or non-numeric answers 400 with the generic invalid-input error,
\* whichever field fails, however many fail, whatever Soil and Crop are and
\* whatever the shape of the body is.
C4_MissingOrNonNumericIsInvalidInput ==
    (Loaded /\ IsPredict
        /\ (request.shape = "array"
            \/ (request.shape = "object"
                /\ \E i \in 1..Len(NumericFields) :
                      MissingOrNonNumeric(NumericFields[i]))))
        => IsGenericInvalidInput

\* C5: once load_assets has returned, both slots are present if both
\* artifacts deserialized and both are absent otherwise.
C5_BothOrNeither ==
    ReturnedFromLoad
        => IF model_file.cond = "valid" /\ encoder_file.cond = "valid"
           THEN model = model_file.content /\ label_encoders = encoder_file.content
                /\ model # None /\ label_encoders # None
           ELSE model = None /\ label_encoders = None

C5_Witness ==
    /\ ReturnedFromLoad
    /\ model_file.cond = "valid"
    /\ encoder_file.cond = "corrupt"
    /\ model = None
    /\ label_encoders = None

\* C6 as stated: the 'not found' line is printed whenever either location
\* does not exist, and the generic load-error line only when both exist.
C6_MissingWheneverEitherMissing ==
    ReturnedFromLoad
        => /\ (model_file.cond = "missing" \/ encoder_file.cond = "missing")
                => status_line = StatusNotFound
           /\ status_line = StatusLoadError
                => (model_file.cond # "missing" /\ encoder_file.cond # "missing")

\* C6: load_assets prints the line of the first artifact that fails, in the
\* order classifier, encoder-set: 'not found' when that artifact's location
\* does not exist, the generic load error when it does not deserialize; the
\* encoder-set is not looked at when the classifier fails.
C6_FirstFailureIsReported ==
    ReturnedFromLoad
        => status_line =
             CASE model_file.cond = "missing" -> StatusNotFound
               [] model_file.cond = "corrupt" -> StatusLoadError
               [] model_file.cond = "valid" /\ encoder_file.cond = "missing" ->
                    StatusNotFound
               [] model_file.cond = "valid" /\ encoder_file.cond = "corrupt" ->
                    StatusLoadError
               [] OTHER -> StatusLoaded

C6_Witness ==
    /\ ReturnedFromLoad
    /\ model_file.cond = "valid"
    /\ encoder_file.cond = "missing"
    /\ status_line = StatusNotFound

\* C7 as stated: every answer of GET /recommend or POST /predict that is not
\* a success is a JSON object with an error key and status 400 or 500.
C7_EveryFailureIsJson ==
    /\ (IsPredict /\ ~IsPredictSuccess) => IsJsonError
    /\ (IsRecommend /\ ~IsRecommendSuccess) => IsJsonError

\* C7: every answer of POST /predict that is not a success is a JSON object
\* with an error key and status 400 or 500; the failure of GET /recommend is
\* the HTML error page with status 500.
C7_PredictFailureIsJson ==
    /\ (IsPredict /\ ~IsPredictSuccess) => IsJsonError
    /\ (IsRecommend /\ ~IsRecommendSuccess)
          => /\ response.status = 500
             /\ response.ctype = "html"
             /\ response.body.template = "error.html"

C7_Witness ==
    /\ Loaded
    /\ IsPredict
    /\ request.shape = "not_json"
    /\ response.status = 500
    /\ IsJsonError

\* C8: get_categorical_options returns the Soil and Crop encoders' class
\* lists, in the encoders' order, when the encoder-set is present, and two
\* empty sequences when the state is absent.
C8_OptionsAreClassLists ==
    request.route = "get_categorical_options()"
        => IF Degraded
           THEN options = [Soil |-> <<>>, Crop |-> <<>>]
           ELSE options = [Soil |-> label_encoders.Soil,
                           Crop |-> label_encoders.Crop]

C8_Witness ==
    /\ request.route = "get_categorical_options()"
    /\ Loaded
    /\ options.Soil = <<"Loamy", "Sandy">>
    /\ options.Crop = <<"Rice", "Wheat">>

\* C9: once the server is serving, no step changes the classifier slot, the
\* encoder-set slot or the name table.
C9_RequestsLeaveStateAlone ==
    [][pc = "serving" =>
        /\ model' = model
        /\ label_encoders' = label_encoders
        /\ fertilizer_mapping' = fertilizer_mapping]_vars

C9_Witness ==
    /\ pc = "serving"
    /\ IsObjectPredict
    /\ response.status = 400
    /\ Loaded
    /\ fertilizer_mapping = FERTILIZER_MAPPING

\* C10: a request is handled only after load_assets has returned, so the
\* slots it sees are both present or both absent.
C10_RequestsAfterLoad ==
    request # NoRequest
        => /\ pc = "serving"
           /\ (model = None) <=> (label_encoders = None)

C10_Witness ==
    /\ IsRecommend
    /\ pc = "serving"
    /\ Loaded
    /\ response.status = 200
    /\ response.body.context.soil_options = label_encoders.Soil

====
